---- MODULE Spec2Model ----
(***************************************************************************)
(* Model of the avabot like-allocation bot (src/main.py).                  *)
(*                                                                         *)
(* main() runs Bot.signup_users, Bot.create_posts and Bot.like_posts in    *)
(* this order.  The state is the Bot's settings, its list of users, every  *)
(* User's own_posts_with_likes map and posts_liked set, and the position   *)
(* of the interpreter inside the three loops.  Each randint() call and     *)
(* each answer of the remote API is a nondeterministic choice.             *)
(*                                                                         *)
(* Usernames are unique (generate_username) and so are post ids: the       *)
(* counter Bot.post_id in fake mode, the ids the server returns otherwise. *)
(* In remote mode sign_up may raise and like_post may report a failure;    *)
(* in fake mode neither happens.                                           *)
(***************************************************************************)
EXTENDS Naturals, Sequences, FiniteSets, TLC

(* ---- bounds of the model ---- *)
MaxUsers == 3          \* largest number_of_users setting explored
MaxPostsPerUser == 3   \* the max_posts_per_user setting
MaxLikes == 2          \* largest max_likes_per_user setting explored
MaxTotalPosts == 5     \* posts created by the whole population in one run
MaxFailures == 1       \* remote like calls that may fail in one run
MaxRounds == 3         \* the round counter saturates here

Names == 1..MaxUsers                       \* usernames, unique per user
PostIds == 1..MaxTotalPosts                \* post ids, unique per post
NoUser == 0                                \* by_user=None of is_likeable

VARIABLES
    fake_api,             \* Settings.fake_api
    number_of_users,      \* Settings.number_of_users
    max_likes_per_user,   \* Settings.max_likes_per_user
    users,                \* Bot.users: sequence of usernames, signup order
    own_posts_with_likes, \* username -> (post id -> like count)
    posts_liked,          \* username -> set of post ids
    post_id,              \* next post id handed out
    users_queue,          \* like_posts' local users_queue
    pc,                   \* position of the interpreter
    idx,                  \* position of the signup / create_posts loop
    qi,                   \* position of `for user in users_queue`
    si,                   \* position of `for user_to_like in self.users`
    skipped,              \* history: usernames whose sign_up raised
    applied,              \* history: <<u, p>> -> increments of p made for u
    failures,             \* history: remote like calls that failed
    rounds,               \* history: rounds started by like_posts (saturating)
    scan_likes,           \* history: increments made in the current scan
    idle_pass             \* history: the user's last scan this turn made none

vars == <<fake_api, number_of_users, max_likes_per_user, users,
          own_posts_with_likes, posts_liked, post_id, users_queue,
          pc, idx, qi, si, skipped, applied, failures, rounds,
          scan_likes, idle_pass>>

settings == <<fake_api, number_of_users, max_likes_per_user>>
likeLoop == <<users_queue, qi, si>>
events == <<skipped, applied, failures, rounds>>
history == <<skipped, applied, failures, rounds, scan_likes, idle_pass>>

(* ---- helpers on the data ---- *)
Range(s) == {s[i] : i \in 1..Len(s)}

Posts(u) == DOMAIN own_posts_with_likes[u]

AllPosts == UNION {Posts(u) : u \in Names}

Owner(p) == CHOOSE u \in Names : p \in Posts(u)

LikeCount(p) == own_posts_with_likes[Owner(p)][p]

EmptyPosts == [p \in {} |-> 0]

(* User.posts_count *)
posts_count(u) == Cardinality(Posts(u))

(* User.__eq__: users are equal iff their usernames are equal *)
UserEqNever(a, b) == FALSE

UserEq(a, b) == a = b

(* User.is_likeable(by_user) *)
is_likeable_any_count(u, by_user) ==
    LET liked == IF by_user = NoUser THEN {} ELSE posts_liked[by_user]
    IN  Posts(u) \ liked # {}

is_likeable(u, by_user) ==
    LET liked == IF by_user = NoUser THEN {} ELSE posts_liked[by_user]
    IN  \E p \in Posts(u) \ liked : own_posts_with_likes[u][p] = 0

(* User.can_like(users) *)
can_like_no_max(u) ==
    \E i \in 1..Len(users) :
        /\ ~UserEq(users[i], u)
        /\ is_likeable(users[i], u)

can_like(u) ==
    IF Cardinality(posts_liked[u]) >= max_likes_per_user
    THEN FALSE
    ELSE \E i \in 1..Len(users) :
            /\ ~UserEq(users[i], u)
            /\ is_likeable(users[i], u)

(* Bot.is_posts_left *)
is_posts_left_always == Len(users) > 0

is_posts_left == \E i \in 1..Len(users) : is_likeable(users[i], NoUser)

(* Bot.is_users_left *)
is_users_left_no_size_check ==
    \E i \in 1..Len(users) :
        Cardinality(posts_liked[users[i]]) < max_likes_per_user

is_users_left_all ==
    IF Len(users) < 2
    THEN FALSE
    ELSE \A i \in 1..Len(users) :
            Cardinality(posts_liked[users[i]]) < max_likes_per_user

is_users_left ==
    IF Len(users) < 2
    THEN FALSE
    ELSE \E i \in 1..Len(users) :
            Cardinality(posts_liked[users[i]]) < max_likes_per_user

(* sorted(self.users, key=posts_count, reverse=True): a stable sort, so     *)
(* users with equal keys keep their signup order.                           *)
RECURSIVE InsertDesc(_, _)
InsertDesc(s, u) ==
    IF s = <<>> THEN <<u>>
    ELSE IF posts_count(Head(s)) >= posts_count(u)
         THEN <<Head(s)>> \o InsertDesc(Tail(s), u)
         ELSE <<u>> \o s

Unsorted(s) == s

RECURSIVE SortedByPosts(_)
SortedByPosts(s) ==
    IF s = <<>> THEN <<>>
    ELSE InsertDesc(SortedByPosts(SubSeq(s, 1, Len(s) - 1)), s[Len(s)])

Bump(n) == IF n < MaxRounds THEN n + 1 ELSE n

(* ---- initial state: Bot.__init__ with the settings read from the ini ---- *)
Init ==
    /\ fake_api \in BOOLEAN
    /\ number_of_users \in 0..MaxUsers
    /\ max_likes_per_user \in 0..MaxLikes
    /\ users = <<>>
    /\ own_posts_with_likes = [u \in Names |-> EmptyPosts]
    /\ posts_liked = [u \in Names |-> {}]
    /\ post_id = 1
    /\ users_queue = <<>>
    /\ pc = "signup"
    /\ idx = 1
    /\ qi = 1
    /\ si = 1
    /\ skipped = {}
    /\ applied = [k \in Names \X PostIds |-> 0]
    /\ failures = 0
    /\ rounds = 0
    /\ scan_likes = 0
    /\ idle_pass = FALSE

(* ---- Bot.signup_users ---- *)
SignUpOk ==
    /\ pc = "signup"
    /\ idx <= number_of_users
    /\ users' = Append(users, idx)
    /\ idx' = idx + 1
    /\ UNCHANGED <<settings, own_posts_with_likes, posts_liked, post_id,
                   likeLoop, pc, history>>

SignUpFailAppends ==
    /\ pc = "signup"
    /\ idx <= number_of_users
    /\ ~fake_api
    /\ skipped' = skipped \cup {idx}
    /\ users' = Append(users, idx)
    /\ idx' = idx + 1
    /\ UNCHANGED <<settings, own_posts_with_likes, posts_liked, post_id,
                   likeLoop, pc, applied, failures, rounds, scan_likes,
                   idle_pass>>

SignUpFail ==
    /\ pc = "signup"
    /\ idx <= number_of_users
    /\ ~fake_api
    /\ skipped' = skipped \cup {idx}
    /\ idx' = idx + 1
    /\ UNCHANGED <<settings, users, own_posts_with_likes, posts_liked, post_id,
                   likeLoop, pc, applied, failures, rounds, scan_likes,
                   idle_pass>>

SignUpDone ==
    /\ pc = "signup"
    /\ idx > number_of_users
    /\ pc' = "create"
    /\ idx' = 1
    /\ UNCHANGED <<settings, users, own_posts_with_likes, posts_liked, post_id,
                   likeLoop, history>>

(* ---- Bot.create_posts ---- *)
CreatePosts ==
    /\ pc = "create"
    /\ idx <= Len(users)
    /\ \E k \in 1..MaxPostsPerUser :
          /\ (post_id - 1) + k + (Len(users) - idx) <= MaxTotalPosts
          /\ LET u == users[idx]
                 new == post_id..(post_id + k - 1)
             IN  /\ own_posts_with_likes' =
                       [own_posts_with_likes EXCEPT
                           ![u] = [p \in Posts(u) \cup new |->
                                      IF p \in new THEN 0
                                      ELSE own_posts_with_likes[u][p]]]
                 /\ post_id' = post_id + k
    /\ idx' = idx + 1
    /\ UNCHANGED <<settings, users, posts_liked, likeLoop, pc, history>>

CreateDone ==
    /\ pc = "create"
    /\ idx > Len(users)
    /\ pc' = "like_entry"
    /\ UNCHANGED <<settings, users, own_posts_with_likes, posts_liked, post_id,
                   likeLoop, idx, history>>

(* ---- Bot.like_posts ---- *)
(* the user whose turn it is, and the user scanned as a target *)
user == users_queue[qi]

user_to_like == users[si]

(* User.random_post: any of the user's own post ids *)
random_post(u) == Posts(u)

(* line 291 is false: the scanned user is another user, likeable by `user` *)
Eligible ==
    /\ ~UserEq(user_to_like, user)
    /\ is_likeable(user_to_like, user)

(* own_posts_with_likes[post_to_like] += 1 *)
IncrementAll(v, p) ==
    [own_posts_with_likes EXCEPT
        ![v] = [q \in Posts(v) |-> own_posts_with_likes[v][q] + 1]]

Increment(v, p) ==
    [own_posts_with_likes EXCEPT ![v][p] = @ + 1]

LikeEntry ==
    /\ pc = "like_entry"
    /\ users_queue' = SortedByPosts(users)
    /\ pc' = "outer"
    /\ UNCHANGED <<settings, users, own_posts_with_likes, posts_liked, post_id,
                   idx, qi, si, history>>

StopNoPosts ==
    /\ pc = "outer"
    /\ ~is_posts_left
    /\ pc' = "done"
    /\ UNCHANGED <<settings, users, own_posts_with_likes, posts_liked, post_id,
                   likeLoop, idx, history>>

StopNoUsers ==
    /\ pc = "outer"
    /\ is_posts_left
    /\ ~is_users_left
    /\ pc' = "done"
    /\ UNCHANGED <<settings, users, own_posts_with_likes, posts_liked, post_id,
                   likeLoop, idx, history>>

StartRound ==
    /\ pc = "outer"
    /\ is_posts_left
    /\ is_users_left
    /\ pc' = "turn"
    /\ qi' = 1
    /\ rounds' = Bump(rounds)
    /\ scan_likes' = 0
    /\ idle_pass' = FALSE
    /\ UNCHANGED <<settings, users, own_posts_with_likes, posts_liked, post_id,
                   users_queue, idx, si, skipped, applied, failures>>

RoundEnd ==
    /\ pc = "turn"
    /\ qi > Len(users_queue)
    /\ pc' = "outer"
    /\ UNCHANGED <<settings, users, own_posts_with_likes, posts_liked, post_id,
                   likeLoop, idx, history>>

NextUser ==
    /\ pc = "turn"
    /\ qi <= Len(users_queue)
    /\ ~can_like(user)
    /\ qi' = qi + 1
    /\ scan_likes' = 0
    /\ idle_pass' = FALSE
    /\ UNCHANGED <<settings, users, own_posts_with_likes, posts_liked, post_id,
                   users_queue, pc, idx, si, events>>

StartScan ==
    /\ pc = "turn"
    /\ qi <= Len(users_queue)
    /\ can_like(user)
    /\ pc' = "scan"
    /\ si' = 1
    /\ scan_likes' = 0
    /\ UNCHANGED <<settings, users, own_posts_with_likes, posts_liked, post_id,
                   users_queue, idx, qi, events, idle_pass>>

ScanEnd ==
    /\ pc = "scan"
    /\ si > Len(users)
    /\ pc' = "turn"
    /\ idle_pass' = (scan_likes = 0)
    /\ UNCHANGED <<settings, users, own_posts_with_likes, posts_liked, post_id,
                   likeLoop, idx, events, scan_likes>>

SkipUser ==
    /\ pc = "scan"
    /\ si <= Len(users)
    /\ ~Eligible
    /\ si' = si + 1
    /\ UNCHANGED <<settings, users, own_posts_with_likes, posts_liked, post_id,
                   users_queue, pc, idx, qi, history>>

SkipPicked ==
    /\ pc = "scan"
    /\ si <= Len(users)
    /\ Eligible
    /\ \E post_to_like \in random_post(user_to_like) :
          post_to_like \in posts_liked[user]
    /\ si' = si + 1
    /\ UNCHANGED <<settings, users, own_posts_with_likes, posts_liked, post_id,
                   users_queue, pc, idx, qi, history>>

LikeOk ==
    /\ pc = "scan"
    /\ si <= Len(users)
    /\ Eligible
    /\ \E post_to_like \in random_post(user_to_like) :
          /\ post_to_like \notin posts_liked[user]
          /\ own_posts_with_likes' = Increment(user_to_like, post_to_like)
          /\ posts_liked' = [posts_liked EXCEPT ![user] = @ \cup {post_to_like}]
          /\ applied' = [applied EXCEPT ![<<user, post_to_like>>] = @ + 1]
    /\ scan_likes' = scan_likes + 1
    /\ si' = si + 1
    /\ UNCHANGED <<settings, users, post_id, users_queue, pc, idx, qi,
                   skipped, failures, rounds, idle_pass>>

LikeFailRecorded ==
    /\ pc = "scan"
    /\ si <= Len(users)
    /\ Eligible
    /\ ~fake_api
    /\ failures < MaxFailures
    /\ \E post_to_like \in random_post(user_to_like) :
          /\ post_to_like \notin posts_liked[user]
          /\ own_posts_with_likes' = Increment(user_to_like, post_to_like)
          /\ posts_liked' = [posts_liked EXCEPT ![user] = @ \cup {post_to_like}]
          /\ applied' = [applied EXCEPT ![<<user, post_to_like>>] = @ + 1]
    /\ failures' = failures + 1
    /\ scan_likes' = scan_likes + 1
    /\ si' = si + 1
    /\ UNCHANGED <<settings, users, post_id, users_queue, pc, idx,
                   qi, skipped, rounds, idle_pass>>

LikeFail ==
    /\ pc = "scan"
    /\ si <= Len(users)
    /\ Eligible
    /\ ~fake_api
    /\ failures < MaxFailures
    /\ \E post_to_like \in random_post(user_to_like) :
          /\ post_to_like \notin posts_liked[user]
          /\ own_posts_with_likes' = Increment(user_to_like, post_to_like)
          /\ applied' = [applied EXCEPT ![<<user, post_to_like>>] = @ + 1]
    /\ failures' = failures + 1
    /\ scan_likes' = scan_likes + 1
    /\ si' = si + 1
    /\ UNCHANGED <<settings, users, posts_liked, post_id, users_queue, pc, idx,
                   qi, skipped, rounds, idle_pass>>

Like == LikeOk \/ LikeFail

Next ==
    \/ SignUpOk \/ SignUpFail \/ SignUpDone
    \/ CreatePosts \/ CreateDone
    \/ LikeEntry
    \/ StopNoPosts \/ StopNoUsers \/ StartRound
    \/ RoundEnd \/ NextUser \/ StartScan
    \/ ScanEnd \/ SkipUser \/ SkipPicked
    \/ LikeOk \/ LikeFail

Spec == Init /\ [][Next]_vars

(* The interpreter always takes its next step, and randint is fair: a pick  *)
(* that is possible again and again is eventually made.                     *)
FairSpec == Spec /\ WF_vars(Next) /\ SF_vars(Like)

TypeOK ==
    /\ fake_api \in BOOLEAN
    /\ number_of_users \in 0..MaxUsers
    /\ max_likes_per_user \in 0..MaxLikes
    /\ users \in Seq(Names)
    /\ \A u \in Names : Posts(u) \subseteq PostIds
    /\ \A u \in Names : posts_liked[u] \subseteq PostIds
    /\ pc \in {"signup", "create", "like_entry", "outer", "turn", "scan", "done"}
    /\ failures \in 0..MaxFailures
    /\ rounds \in 0..MaxRounds
    /\ scan_likes \in 0..MaxUsers
    /\ idle_pass \in BOOLEAN

(* ======================= the claims ======================= *)
Likers(p) == {u \in Names : p \in posts_liked[u]}

InLikePhase == pc \in {"outer", "turn", "scan", "done"}

(* C1: in every state of the like allocation, no user's posts_liked set    *)
(* holds more than max_likes_per_user post ids.                            *)
C1_LikesWithinMax ==
    \A u \in Names : Cardinality(posts_liked[u]) <= max_likes_per_user

(* C2: like_posts terminates for every population when the random pick is  *)
(* fair; it never keeps running rounds in which no user can like.  Runs in *)
(* which a remote like call failed are left aside, so that a run refuting  *)
(* this is a run of the allocation alone.                                  *)
C2_Terminates == <>(pc = "done" \/ failures > 0)

(* C3: no user's posts_liked set holds one of the user's own posts, and no *)
(* like count of an own post was ever incremented on the user's behalf.    *)
C3_NoSelfLike ==
    \A u \in Names :
        /\ posts_liked[u] \cap Posts(u) = {}
        /\ \A p \in Posts(u) : applied[<<u, p>>] = 0

C3_Witness ==
    /\ pc = "scan"
    /\ si <= Len(users)
    /\ user_to_like = user
    /\ is_likeable(user, user)
    /\ posts_liked[user] # {}

(* C4: over the whole allocation the like count of a post is incremented   *)
(* on behalf of one user at most once, and posts_liked sets only grow.     *)
C4_LikeAtMostOnce ==
    [][/\ \A u \in Names, p \in PostIds : applied'[<<u, p>>] <= 1
       /\ \A u \in Names : posts_liked[u] \subseteq posts_liked'[u]]_vars

(* C5: between two like operations the like count of every post equals the *)
(* number of distinct users whose posts_liked set holds the post's id.     *)
C5_CountEqualsLikers ==
    \A p \in AllPosts : LikeCount(p) = Cardinality(Likers(p))

(* C6: the like count of a post never exceeds the number of users in the   *)
(* population minus 1.                                                     *)
C6_CountBelowActors ==
    \A p \in AllPosts : LikeCount(p) + 1 <= Len(users)

C8_SkippedNeverJoin ==
    /\ \A u \in skipped :
          /\ u \notin Range(users)
          /\ u \notin Range(users_queue)
          /\ Posts(u) = {}
          /\ posts_liked[u] = {}
          /\ \A p \in PostIds : applied[<<u, p>>] = 0
    /\ pc # "signup" => Range(users) = (1..number_of_users) \ skipped

C8_Witness ==
    /\ pc = "done"
    /\ skipped # {}
    /\ \E u \in Range(users) : posts_liked[u] # {}

(* C9: with exactly 2 users of exactly 1 post each and                     *)
(* max_likes_per_user >= 1, like_posts never starts a second round and     *)
(* ends with each user having liked the other's post exactly once and both *)
(* posts at like count 1.                                                  *)
ScenarioA ==
    /\ InLikePhase
    /\ Len(users) = 2
    /\ \A i \in 1..2 : posts_count(users[i]) = 1
    /\ max_likes_per_user >= 1

C9_TwoActorsOnePostEach ==
    ScenarioA =>
        /\ rounds <= 1
        /\ pc = "done" =>
              /\ rounds = 1
              /\ \A p \in AllPosts : LikeCount(p) = 1
              /\ \A i \in 1..2 :
                    LET u == users[i]
                        v == users[3 - i]
                    IN  /\ \A p \in Posts(v) : applied[<<u, p>>] = 1
                        /\ failures = 0 => posts_liked[u] = Posts(v)

C9_Witness ==
    /\ ScenarioA
    /\ pc = "done"
    /\ max_likes_per_user = MaxLikes
    /\ \A i \in 1..2 : posts_liked[users[i]] = Posts(users[3 - i])

(* C10: when like_posts is entered with fewer than 2 users, or with every  *)
(* post already at like count >= 1, it returns without starting a round    *)
(* and without changing any like count or posts_liked set.                 *)
FewActors == Len(users) < 2

EveryPostLiked == \A p \in AllPosts : LikeCount(p) >= 1

C10_NoRoundWhenNothingToDo ==
    [][(pc = "outer" /\ rounds = 0 /\ (FewActors \/ EveryPostLiked)) =>
          /\ pc' = "done"
          /\ rounds' = 0
          /\ own_posts_with_likes' = own_posts_with_likes
          /\ posts_liked' = posts_liked
          /\ applied' = applied]_vars

C10_Witness ==
    /\ pc = "done"
    /\ rounds = 0
    /\ Len(users) = 1
    /\ max_likes_per_user >= 1
    /\ \E p \in AllPosts : LikeCount(p) = 0

(* C11: one scan over the other users applies at most one like, so         *)
(* can_like is evaluated again between any two likes a user applies.       *)
(* can_like is evaluated only where a scan starts (the while of line 289), *)
(* so two likes have an evaluation between them iff they are in two scans. *)
C11_OneLikePerScan == scan_likes <= 1

(* C12: when a full scan of a user has applied no like, the user's turn    *)
(* ends for this round: the next step moves on to the next user of the     *)
(* queue and starts no other scan for the same user.                       *)
C12_IdlePassEndsTurn ==
    [][(pc = "turn" /\ idle_pass) =>
          (pc' = "turn" /\ qi' = qi + 1)]_vars

(* C13: the users take their turns in every round in one fixed queue       *)
(* order, computed once: descending number of own posts, ties in signup    *)
(* order.  The queue never changes during the allocation, a round visits   *)
(* its positions one after the other from the first to the last, and every *)
(* like is applied by the user at the current position.                    *)
Pos(u) == CHOOSE i \in 1..Len(users) : users[i] = u

QueueOrdered ==
    /\ Len(users_queue) = Len(users)
    /\ Range(users_queue) = Range(users)
    /\ \A i, j \in 1..Len(users_queue) :
          i < j =>
             \/ posts_count(users_queue[i]) > posts_count(users_queue[j])
             \/ /\ posts_count(users_queue[i]) = posts_count(users_queue[j])
                /\ Pos(users_queue[i]) < Pos(users_queue[j])

C13_FixedQueueOrder ==
    [][InLikePhase =>
          /\ QueueOrdered
          /\ users_queue' = users_queue
          /\ qi' # qi =>
                \/ pc = "turn" /\ pc' = "turn" /\ qi' = qi + 1
                \/ pc = "outer" /\ pc' = "turn" /\ qi' = 1
          /\ (pc = "turn" /\ pc' = "outer") => qi = Len(users_queue) + 1
          /\ applied' # applied =>
                /\ qi' = qi
                /\ \E p \in AllPosts :
                      applied' = [applied EXCEPT
                                     ![<<users_queue[qi], p>>] = @ + 1]]_vars

C13_Witness ==
    /\ pc = "turn"
    /\ rounds >= 2
    /\ qi = 2
    /\ users_queue # users
    /\ \E p \in AllPosts : LikeCount(p) >= 1

(* C14: a round is started only while some post has like count 0, the      *)
(* population has at least 2 users and some user is below                  *)
(* max_likes_per_user; when like_posts returns, no post has like count 0,  *)
(* or fewer than 2 users exist, or every user is at max_likes_per_user or  *)
(* above.                                                                  *)
EveryUserAtMax ==
    \A i \in 1..Len(users) :
        Cardinality(posts_liked[users[i]]) >= max_likes_per_user

C14_RoundsOnlyWhileBothHold ==
    [][/\ (pc = "outer" /\ pc' = "turn") =>
             /\ ~EveryPostLiked
             /\ ~FewActors
             /\ ~EveryUserAtMax
       /\ pc' = "done" =>
             (EveryPostLiked' \/ FewActors' \/ EveryUserAtMax')]_vars

C14_Witness ==
    /\ pc = "done"
    /\ rounds >= 1
    /\ ~EveryPostLiked
    /\ ~FewActors
    /\ EveryUserAtMax

(* C15: once every post of a user has like count >= 1, the user is         *)
(* likeable for no caller (none included), and no post of the user         *)
(* receives another like.                                                  *)
AllLiked(v) ==
    /\ Posts(v) # {}
    /\ \A p \in Posts(v) : own_posts_with_likes[v][p] >= 1

C15_LikedOwnerNotLikeable ==
    [][\A v \in Names :
          AllLiked(v) =>
             /\ \A by \in Names \cup {NoUser} : ~is_likeable(v, by)
             /\ own_posts_with_likes'[v] = own_posts_with_likes[v]]_vars

C15_Witness ==
    /\ pc = "scan"
    /\ si <= Len(users)
    /\ user_to_like # user
    /\ AllLiked(user_to_like)
    /\ Posts(user_to_like) \cap posts_liked[user] = {}
    /\ Cardinality(posts_liked[user]) < max_likes_per_user

(* C16: a like increments the like count of exactly one post of another    *)
(* user by exactly 1 and, when the call succeeds, adds that post id to the *)
(* liker's posts_liked; nothing else of the like counts and posts_liked    *)
(* sets changes.  No like count decreases and no post map gains or loses   *)
(* a post during the allocation.                                           *)
C16_LikeFrame ==
    [][InLikePhase =>
          /\ \A u \in Names : Posts(u)' = Posts(u)
          /\ \A p \in AllPosts : LikeCount(p)' >= LikeCount(p)
          /\ (own_posts_with_likes' # own_posts_with_likes
                \/ posts_liked' # posts_liked) =>
                \E v \in Names \ {user} : \E p \in Posts(v) :
                    /\ own_posts_with_likes' =
                          [own_posts_with_likes EXCEPT ![v][p] = @ + 1]
                    /\ IF failures' = failures
                       THEN /\ p \notin posts_liked[user]
                            /\ posts_liked' =
                                  [posts_liked EXCEPT ![user] = @ \cup {p}]
                       ELSE posts_liked' = posts_liked]_vars

C16_Witness ==
    /\ pc = "scan"
    /\ scan_likes >= 1
    /\ \E u \in Range(users) \ {user} : posts_liked[u] # {}
    /\ Cardinality({p \in AllPosts : LikeCount(p) >= 1}) >= 2
    /\ \E v \in Range(users) : posts_count(v) >= 2

(* C17: in fake mode with at least 2 users, no posts_liked set holds more  *)
(* than max_likes_per_user + (number of users) - 2 post ids.               *)
C17_LikesWithinMaxPlusScan ==
    (fake_api /\ Len(users) >= 2) =>
        \A u \in Names :
            Cardinality(posts_liked[u]) + 2 <= max_likes_per_user + Len(users)

C17_Witness ==
    /\ fake_api
    /\ Len(users) = MaxUsers
    /\ max_likes_per_user >= 1
    /\ \E u \in Names :
          Cardinality(posts_liked[u]) + 2 = max_likes_per_user + Len(users)

====
